---- MODULE Spec2Model ----
(***************************************************************************)
(* Model of fauldier: the normalisation of life-cycle-inventory rows      *)
(* (basic_mapping.py), the parsing of the classifier's response           *)
(* (llm_mapping.py), the reconciliation of two tables (helper.py) and the *)
(* by-product handling and per-sheet mapping (processing.py, x2bw.py).    *)
(*                                                                         *)
(* Text is modelled as TLA+ strings, character by character: Len, SubSeq  *)
(* and \o act on strings as on sequences of characters.  A missing cell   *)
(* (pandas NaN / None) is the value NaN, which every text operation tests *)
(* for first, as the pandas calls do with na=False.                       *)
(***************************************************************************)
EXTENDS Integers, Sequences, FiniteSets, TLC

VARIABLES norm, conv, parse, split, recon, sheet, run

vars == <<norm, conv, parse, split, recon, sheet, run>>

(***************************************************************************)
(* Bounds of the model.                                                    *)
(***************************************************************************)
\* how many fragments a generated name is concatenated from
MaxFragments == 2

\* the state of a component that takes no part in a specification
Idle == [pc |-> "idle"]

(***************************************************************************)
(* Text primitives (Python str / re / pandas .str semantics).              *)
(***************************************************************************)
NaN == "<NaN>"

isna(s) == s = NaN

At(s, i) == SubSeq(s, i, i)

UpperCase == "ABCDEFGHIJKLMNOPQRSTUVWXYZ"

LowerCase == "abcdefghijklmnopqrstuvwxyz"

\* the lower-case letter of every upper-case letter
LowerTable ==
    [c \in {At(UpperCase, i) : i \in 1..Len(UpperCase)} |->
        At(LowerCase, CHOOSE i \in 1..Len(UpperCase) : At(UpperCase, i) = c)]

LowerChar(c) == IF c \in DOMAIN LowerTable THEN LowerTable[c] ELSE c

RECURSIVE lower(_)
\* str.lower()
lower(s) ==
    IF Len(s) <= 1 THEN LowerChar(s)
    ELSE lower(SubSeq(s, 1, Len(s) \div 2)) \o lower(SubSeq(s, Len(s) \div 2 + 1, Len(s)))

\* p occurs in s at (1-based) position i
StartsAt(s, p, i) == i >= 1 /\ i + Len(p) - 1 <= Len(s) /\ SubSeq(s, i, i + Len(p) - 1) = p

\* Python `p in s`
Contains(s, p) == \E i \in 1..(Len(s) - Len(p) + 1) : StartsAt(s, p, i)

\* Series.str.contains(p, case=False, na=False) for a pattern p without
\* metacharacters, given in lower case
str_contains_nocase(s, p) == ~isna(s) /\ Contains(lower(s), p)

\* regex \w
WordChars ==
    {At(UpperCase \o LowerCase \o "0123456789_", i) : i \in 1..(2 * Len(UpperCase) + 11)}

IsWordChar(c) == c \in WordChars

\* regex \b between positions i and i+1 of s (i = 0: before the first character)
WordBoundary(s, i) ==
    LET before == i >= 1 /\ i <= Len(s) /\ IsWordChar(At(s, i))
        after  == i + 1 >= 1 /\ i + 1 <= Len(s) /\ IsWordChar(At(s, i + 1))
    IN before # after

\* re.search(r'\bword\b', s): word occurs in s as a whole word
ContainsWord(s, word) ==
    \E i \in 1..(Len(s) - Len(word) + 1) :
        StartsAt(s, word, i) /\ WordBoundary(s, i - 1) /\ WordBoundary(s, i + Len(word) - 1)

\* str.find(sep) + 1: the position of the first occurrence of sep in s, 0 when
\* there is none
Find(s, sep) ==
    LET hits == {i \in 1..(Len(s) - Len(sep) + 1) : StartsAt(s, sep, i)}
    IN IF hits = {} THEN 0 ELSE CHOOSE i \in hits : \A j \in hits : i <= j

RECURSIVE str_replace(_, _, _)
\* str.replace(old, new): every non-overlapping occurrence, left to right
str_replace(s, old, new) ==
    LET i == Find(s, old)
    IN IF i = 0 THEN s
       ELSE SubSeq(s, 1, i - 1) \o new
            \o str_replace(SubSeq(s, i + Len(old), Len(s)), old, new)

(***************************************************************************)
(* Name Normalizer: map_common_names, ecoinvent_3_10_names.                *)
(***************************************************************************)
RECURSIVE np_select_last(_, _, _)
\* np.select taking the LAST true condition
np_select_last(condlist, choicelist, default) ==
    IF condlist = <<>> THEN default
    ELSE LET rest == np_select_last(Tail(condlist), Tail(choicelist), default)
         IN IF \E k \in 1..Len(Tail(condlist)) : Tail(condlist)[k] THEN rest
            ELSE IF Head(condlist) THEN Head(choicelist) ELSE default

RECURSIVE np_select(_, _, _)
\* np.select(condlist, choicelist, default): the choice of the first true condition
np_select(condlist, choicelist, default) ==
    IF condlist = <<>> THEN default
    ELSE IF Head(condlist) THEN Head(choicelist)
         ELSE np_select(Tail(condlist), Tail(choicelist), default)

\* '#cooling(?!.*Water, cooling, unspecified natural origin\b)', case=False
CoolingRule(s) ==
    /\ ~isna(s)
    /\ LET l == lower(s)
           w == lower("Water, cooling, unspecified natural origin")
       IN \E i \in 1..Len(l) :
            /\ StartsAt(l, "#cooling", i)
            /\ ~\E k \in (i + Len("#cooling"))..Len(l) :
                    StartsAt(l, w, k) /\ WordBoundary(l, k + Len(w) - 1)

\* the list `conditions` of map_common_names, before True is appended
NameConditions(name) ==
    LET l == IF isna(name) THEN "" ELSE lower(name)
        has(p) == ~isna(name) /\ Contains(l, lower(p))
    IN << has("#electricity"),
          has("process heat") \/ has("heating") \/ has("industrial heat"),
          has("#natural gas"),
          has("waste water"),
          has("CO2, fossil"),
          has("CO2, biogenic"),
          CoolingRule(name) >>

\* the list `choices` of map_common_names, before the name itself is appended
NameChoices ==
    << "market group for electricity, medium voltage",
       "market for heat, from steam, in chemical industry",
       "market group for natural gas, high pressure",
       "market for wastewater, average",
       "Carbon dioxide, fossil",
       "Carbon dioxide, from soil or biomass stock",
       "market for cooling energy" >>

\* map_common_names on one row
map_common_names(row) ==
    [row EXCEPT !.name = np_select(Append(NameConditions(row.name), TRUE),
                                   Append(NameChoices, row.name), 0)]

\* ecoinvent_3_10_names on one row; a missing name stays missing
ecoinvent_3_10_names(row) ==
    LET n1 == IF isna(row.name) THEN row.name
              ELSE str_replace(str_replace(str_replace(row.name,
                        "waste steel", "scrap steel"),
                        "waste aluminium", "scrap aluminium"),
                        "waste copper", "scrap copper")
        n2 == IF isna(n1) THEN n1
              ELSE str_replace(n1, "market for acetic acid",
                        "market for acetic acid, without water, in 98% solution state")
    IN [row EXCEPT !.name = n2,
                   !.ORIGIN = IF n2 = "market for hexamethylenediamine" THEN "GLO" ELSE @]

\* the fragments the generated names are built from
NameFragments ==
    { "#Electricity", "heating", "#natural gas", "waste water", "CO2, fossil",
      "co2, biogenic", "#cooling", " Water, cooling, unspecified natural origin",
      "market for acetic acid", "waste steel", "market for hexamethylenediamine", " x" }

RECURSIVE Concats(_, _)
\* all concatenations of at most n elements of the set of strings F
Concats(F, n) ==
    IF n = 0 THEN {""}
    ELSE LET shorter == Concats(F, n - 1)
         IN shorter \cup {s \o f : s \in shorter, f \in F}

NameInputs == Concats(NameFragments, MaxFragments) \cup {NaN}

\* the row as it enters the Name Normalizer (x2bw.py: name = FLOW NAME)
InitNorm ==
    /\ conv = Idle /\ parse = Idle /\ split = Idle /\ recon = Idle /\ sheet = Idle /\ run = Idle
    /\ \E n \in NameInputs, o \in {"EU", "RER"}, v \in {"3.10", "3.11"} :
        norm = [pc |-> 0, input |-> n, row |-> [name |-> n, ORIGIN |-> o],
                ecoinvent_version |-> v, once |-> n]

\* the rule pass (first and second application of the normalizer)
NormMapCommonNames ==
    /\ norm.pc \in {0, 2}
    /\ LET r == map_common_names(norm.row)
       IN norm' = [norm EXCEPT !.pc = @ + 1, !.row = r]
    /\ UNCHANGED <<conv, parse, split, recon, sheet, run>>

\* the literal-substitution pass, applied for ecoinvent 3.10 only
NormEcoinventNames ==
    /\ norm.pc \in {1, 3}
    /\ LET r == IF norm.ecoinvent_version = "3.10"
                THEN ecoinvent_3_10_names(norm.row) ELSE norm.row
       IN norm' = [norm EXCEPT !.pc = @ + 1, !.row = r,
                               !.once = IF norm.pc = 1 THEN r.name ELSE @]
    /\ UNCHANGED <<conv, parse, split, recon, sheet, run>>

NormNext == NormMapCommonNames \/ NormEcoinventNames

(***************************************************************************)
(* Unit Converter: map_unit, the check_and_convert_* chain and             *)
(* unit_conversion.  An amount is kept symbolically: the quantity read     *)
(* from the sheet and the list of arithmetic operations applied to it, in  *)
(* order, so that the factor a branch uses is visible in the result.       *)
(***************************************************************************)
\* map_unit: abbreviations to full unit names, anything else unchanged
map_unit(unit) ==
    CASE unit = "kg"   -> "kilogram"
      [] unit = "t"    -> "ton"
      [] unit = "kWh"  -> "kilowatt hour"
      [] unit = "m3"   -> "cubic meter"
      [] unit = "m2"   -> "square meter"
      [] unit = "MJ"   -> "megajoule"
      [] unit = "unit" -> "unit"
      [] unit = "ml"   -> "milliliter"
      [] unit = "l"    -> "liter"
      [] OTHER         -> unit

\* a converter whose body is `if <name test>: if unit == from: ...` with the two
\* volume branches of the density converters; mlFactor is the name the
\* milliliter branch multiplies by, lFactor the one of the liter branch
DensityConverter(fn, word, mlFactor, lFactor, defined) ==
    [fn |-> fn, test |-> "word", keys |-> {word},
     branches |-> << [from |-> "milliliter", to |-> "kilogram",
                      ops |-> <<"/ 1e6", "* " \o mlFactor>>,
                      raises |-> IF mlFactor \in defined THEN "" ELSE "NameError"],
                     [from |-> "liter", to |-> "kilogram",
                      ops |-> <<"/ 1e3", "* " \o lFactor>>,
                      raises |-> IF lFactor \in defined THEN "" ELSE "NameError"] >>]

\* the eleven converters in the order unit_conversion applies them; test is
\* "substring" for `key in name.lower()` and "word" for re.search(r'\bkey\b',
\* name, re.IGNORECASE); raises names the exception a branch ends with
Converters ==
    << [fn |-> "check_and_convert_heat", test |-> "substring",
        keys |-> {"heat", "heating", "cooling"},
        branches |-> << [from |-> "kilowatt hour", to |-> "megajoule",
                         ops |-> <<"* 3.6">>, raises |-> ""] >>],
       [fn |-> "check_and_convert_natural_gas", test |-> "substring",
        keys |-> {"natural gas"},
        branches |-> << [from |-> "kilogram", to |-> "cubic meter",
                         ops |-> <<"/ 0.735">>, raises |-> ""] >>],
       [fn |-> "check_and_convert_waste_water", test |-> "substring",
        keys |-> {"waste water", "wastewater"},
        branches |-> << [from |-> "kilogram", to |-> "cubic meter",
                         ops |-> <<"/ 998">>, raises |-> ""] >>],
       [fn |-> "check_and_convert_water", test |-> "substring",
        keys |-> {"market for water, ultrapure"},
        branches |-> << [from |-> "liter", to |-> "kilogram",
                         ops |-> <<"/ 1000", "* rho_water">>, raises |-> ""],
                        [from |-> "milliliter", to |-> "kilogram",
                         ops |-> <<"/ 1000000", "* rho_water">>, raises |-> ""],
                        [from |-> "mmol", to |-> "kilogram",
                         ops |-> <<"/ 1000", "* MW_water">>, raises |-> ""] >>],
       DensityConverter("check_and_convert_ethanol", "ethanol",
                        "conversion_ethanol", "conversion_ethanol", {"conversion_ethanol"}),
       DensityConverter("check_and_convert_methanol", "methanol",
                        "conversion_ethanol", "conversion_methanol", {"conversion_methanol"}),
       DensityConverter("check_and_convert_argon", "argon",
                        "conversion_argon", "conversion_argon", {"conversion_argon"}),
       DensityConverter("check_and_convert_nitrogen", "nitrogen",
                        "conversion_nitrogen", "conversion_nitrogen", {"conversion_nitrogen"}),
       DensityConverter("check_and_convert_toluene", "toluene",
                        "conversion_toluene", "conversion_toluene", {"conversion_toluene"}),
       DensityConverter("check_and_convert_acetone", "acetone",
                        "conversion_acetone", "conversion_acetone", {"conversion_acetone"}),
       DensityConverter("check_and_convert_hexane", "hexane",
                        "conversion_hexane", "conversion_hexane", {"conversion_hexane"}) >>

\* the outcome of a call that ended with an exception
Raised(e) == [raised |-> e]

IsRaised(r) == "raised" \in DOMAIN r

\* the outer `if` of a converter; a missing name has no .lower() (AttributeError
\* in the substring tests) and is no string for re.search (TypeError)
NameTest(c, name) ==
    LET l == lower(name)
    IN IF c.test = "substring"
       THEN \E k \in c.keys : Contains(l, k)
       ELSE \E k \in c.keys : ContainsWord(l, k)

\* a branch that changes the amount and leaves the unit as it was
ApplyBranchKeepUnit(c, b, row) ==
    IF isna(row.name) THEN Raised(IF c.test = "substring" THEN "AttributeError" ELSE "TypeError")
    ELSE IF row.unit = c.branches[b].from /\ NameTest(c, row.name)
         THEN [row EXCEPT !.amount.ops = @ \o c.branches[b].ops]
         ELSE row

\* branch b of converter c on one row: `if unit == from: unit = to; amount ...`
ApplyBranch(c, b, row) ==
    IF isna(row.name) THEN Raised(IF c.test = "substring" THEN "AttributeError" ELSE "TypeError")
    ELSE IF row.unit = c.branches[b].from /\ NameTest(c, row.name)
         THEN IF c.branches[b].raises # "" THEN Raised(c.branches[b].raises)
              ELSE [row EXCEPT !.unit = c.branches[b].to,
                               !.amount.ops = @ \o c.branches[b].ops]
         ELSE row

RECURSIVE RunBranches(_, _, _)
\* the branches b, b+1, ... of converter c, one after the other
RunBranches(c, b, row) ==
    IF b > Len(c.branches) \/ IsRaised(row) THEN row
    ELSE RunBranches(c, b + 1, ApplyBranch(c, b, row))

RECURSIVE RunConverters(_, _)
\* the converters k, k+1, ... of the chain
RunConverters(k, row) ==
    IF k > Len(Converters) \/ IsRaised(row) THEN row
    ELSE RunConverters(k + 1, RunBranches(Converters[k], 1, row))

\* the last statement of unit_conversion: unit "unit" for the chemical factory
DefaultUnit(row) ==
    IF str_contains_nocase(row.name, "market for chemical factory, organics")
    THEN [row EXCEPT !.unit = "unit"] ELSE row

\* unit_conversion on one row
unit_conversion(row) ==
    LET r == RunConverters(1, row) IN IF IsRaised(r) THEN r ELSE DefaultUnit(r)

ConvFragments ==
    { "Heat,", "natural gas,", "waste water,", "wastewater,", "market for water, ultrapure,",
      "Ethanol,", "methanol,", "argon,", "nitrogen,", "toluene,", "acetone,", "hexane,",
      "market for chemical factory, organics", "bio" }

ConvNames == Concats(ConvFragments, MaxFragments) \cup {NaN}

ConvUnits == {"kg", "kWh", "l", "ml", "mmol", "m3", NaN}

\* a row as x2bw.py hands it to the unit steps: amount = QUANTITY, UNIT as read
InitConv ==
    /\ norm = Idle /\ parse = Idle /\ split = Idle /\ recon = Idle /\ sheet = Idle /\ run = Idle
    /\ \E n \in ConvNames, u \in ConvUnits :
        conv = [pc |-> "map_unit", c |-> 1, b |-> 1, fired |-> <<>>, raised |-> "",
                row |-> [name |-> n, UNIT |-> u, unit |-> NaN,
                         amount |-> [q |-> 1, ops |-> <<>>]]]

\* x2bw.py: unit = UNIT.apply(map_unit)
ConvMapUnit ==
    /\ conv.pc = "map_unit"
    /\ conv' = [conv EXCEPT !.pc = "convert", !.row.unit = map_unit(conv.row.UNIT)]
    /\ UNCHANGED <<norm, parse, split, recon, sheet, run>>

\* one `if unit == ...` branch of the chain; fired records the branches that
\* assigned the row's unit (a branch that raises has assigned it before)
ConvBranch ==
    /\ conv.pc = "convert"
    /\ LET c == Converters[conv.c]
           r == ApplyBranch(c, conv.b, conv.row)
           last == conv.b = Len(c.branches)
           hit == IsRaised(r) \/ r # conv.row
       IN conv' = [conv EXCEPT
                     !.row = IF IsRaised(r) THEN @ ELSE r,
                     !.raised = IF IsRaised(r) THEN r.raised ELSE @,
                     !.fired = IF hit /\ ~(IsRaised(r) /\ isna(conv.row.name))
                               THEN Append(@, <<conv.c, conv.b>>) ELSE @,
                     !.pc = IF IsRaised(r) THEN "raised"
                            ELSE IF last /\ conv.c = Len(Converters) THEN "default_unit"
                            ELSE "convert",
                     !.c = IF last THEN @ + 1 ELSE @,
                     !.b = IF last THEN 1 ELSE @ + 1]
    /\ UNCHANGED <<norm, parse, split, recon, sheet, run>>

\* the default unit, then unit_conversion returns
ConvDefaultUnit ==
    /\ conv.pc = "default_unit"
    /\ conv' = [conv EXCEPT !.pc = "done", !.row = DefaultUnit(conv.row)]
    /\ UNCHANGED <<norm, parse, split, recon, sheet, run>>

ConvNext == ConvMapUnit \/ ConvBranch \/ ConvDefaultUnit

RECURSIVE RunConvertersIn(_, _, _)
\* the converters of the chain applied in the order `order` (a list of
\* positions of the chain), from its k-th on
RunConvertersIn(order, k, row) ==
    IF k > Len(order) \/ IsRaised(row) THEN row
    ELSE RunConvertersIn(order, k + 1, RunBranches(Converters[order[k]], 1, row))

\* orders of the eleven converters: the order of unit_conversion with its
\* first k converters moved to the end (every pair of converters is swapped
\* in one of them), and the reverse order
ConvOrders ==
    { [i \in 1..Len(Converters) |-> ((i + k - 1) % Len(Converters)) + 1] :
        k \in 0..(Len(Converters) - 1) }
    \cup { [i \in 1..Len(Converters) |-> Len(Converters) + 1 - i] }

\* an entry with a name and a unit, and an order to apply the converters in
InitOrder ==
    /\ norm = Idle /\ parse = Idle /\ split = Idle /\ recon = Idle /\ sheet = Idle /\ run = Idle
    /\ \E n \in ConvNames \ {NaN}, u \in ConvUnits, o \in ConvOrders :
        conv = [pc |-> "order", order |-> o,
                row |-> [name |-> n, UNIT |-> u, unit |-> map_unit(u),
                         amount |-> [q |-> 1, ops |-> <<>>]],
                chain |-> Raised(""), reordered |-> Raised("")]

\* the chain of unit_conversion on the entry, and the chain in the other order
ConvReorder ==
    /\ conv.pc = "order"
    /\ conv' = [conv EXCEPT !.pc = "compared",
                            !.chain = RunConverters(1, conv.row),
                            !.reordered = RunConvertersIn(conv.order, 1, conv.row)]
    /\ UNCHANGED <<norm, parse, split, recon, sheet, run>>

OrderNext == ConvReorder

(***************************************************************************)
(* LLM Classification Pipeline: the response parsing of prompt_LLM and     *)
(* split_LLM_results.                                                      *)
(***************************************************************************)
\* the characters str.strip() removes
Whitespace == {" ", "\n", "\t"}

RECURSIVE lstrip(_)
lstrip(s) == IF s # "" /\ At(s, 1) \in Whitespace THEN lstrip(Tail(s)) ELSE s

RECURSIVE rstrip(_)
rstrip(s) ==
    IF s # "" /\ At(s, Len(s)) \in Whitespace THEN rstrip(SubSeq(s, 1, Len(s) - 1)) ELSE s

\* str.strip()
strip(s) == lstrip(rstrip(s))

RECURSIVE str_split(_, _)
\* str.split(sep): the list of the pieces between the occurrences of sep
str_split(s, sep) ==
    LET i == Find(s, sep)
    IN IF i = 0 THEN <<s>>
       ELSE <<SubSeq(s, 1, i - 1)>> \o str_split(SubSeq(s, i + Len(sep), Len(s)), sep)

\* str.splitlines() of a text whose only line break is "\n": no piece for the
\* end of a text that ends with a line break, no line at all for the empty text
splitlines(text) ==
    IF text = "" THEN <<>>
    ELSE LET pieces == str_split(text, "\n")
         IN IF pieces[Len(pieces)] = "" THEN SubSeq(pieces, 1, Len(pieces) - 1) ELSE pieces

Digits == "0123456789"

IsDigit(c) == Len(c) = 1 /\ Contains(Digits, c)

DigitValue(c) == (CHOOSE i \in 1..Len(Digits) : At(Digits, i) = c) - 1

RECURSIVE DigitsValue(_)
\* the number a non-empty string of decimal digits denotes
DigitsValue(s) ==
    IF s = "" THEN 0 ELSE 10 * DigitsValue(SubSeq(s, 1, Len(s) - 1)) + DigitValue(At(s, Len(s)))

AllDigits(s) == s # "" /\ \A i \in 1..Len(s) : IsDigit(At(s, i))

\* int(s) for text of digits, signs, letters, blanks and punctuation: blanks
\* around, an optional sign, decimal digits; anything else is a ValueError
ParseInt(s) ==
    LET t == strip(s)
        signed == t # "" /\ At(t, 1) \in {"+", "-"}
        body == IF signed THEN Tail(t) ELSE t
    IN IF AllDigits(body)
       THEN [ok |-> TRUE, value |-> IF signed /\ At(t, 1) = "-" THEN 0 - DigitsValue(body)
                                    ELSE DigitsValue(body)]
       ELSE [ok |-> FALSE, value |-> 0]

\* one turn of the loop over the response lines: the record a line holds
\* (its 0-based index and its value), or none
ParseLine(line) ==
    LET dot == Find(line, ".")
        num == SubSeq(line, 1, dot - 1)
        process == SubSeq(line, dot + 1, Len(line))
        idx == ParseInt(num)
    IN IF dot = 0 \/ ~idx.ok THEN [ok |-> FALSE, idx |-> 0, value |-> ""]
       ELSE [ok |-> TRUE, idx |-> idx.value - 1, value |-> strip(process)]

RECURSIVE ParseRecordsKeepFirst(_, _)
\* the loop over the response lines, a later record never replacing an earlier one
ParseRecordsKeepFirst(lines, results) ==
    IF lines = <<>> THEN results
    ELSE LET r == ParseLine(Head(lines))
         IN ParseRecordsKeepFirst(Tail(lines),
                                  IF r.ok THEN results @@ (r.idx :> r.value) ELSE results)

RECURSIVE ParseRecords(_, _)
\* the loop over the response lines: the dict `results`, starting from results
ParseRecords(lines, results) ==
    IF lines = <<>> THEN results
    ELSE LET r == ParseLine(Head(lines))
         IN ParseRecords(Tail(lines),
                         IF r.ok THEN (r.idx :> r.value) @@ results ELSE results)

\* the returned list with the inputs that have no usable record left out
FallbackListDropping(user_inputs, results) ==
    LET kept == {i \in 1..Len(user_inputs) :
                    (i - 1) \in DOMAIN results /\ lower(results[i - 1]) # "unknown"}
        pick[n \in 0..Len(user_inputs)] ==
            IF n = 0 THEN <<>>
            ELSE IF n \in kept THEN Append(pick[n - 1], results[n - 1]) ELSE pick[n - 1]
    IN pick[Len(user_inputs)]

\* the returned list: per input the recorded value, or the input itself when no
\* record is kept for it or the record says "unknown"
FallbackList(user_inputs, results) ==
    [i \in 1..Len(user_inputs) |->
        LET got == IF (i - 1) \in DOMAIN results THEN results[i - 1] ELSE "unknown"
        IN IF lower(got) = "unknown" THEN user_inputs[i] ELSE results[i - 1]]

\* the empty dict
EmptyDict == [i \in {} |-> ""]

\* the response parsing of prompt_LLM
parse_response(user_inputs, content) ==
    FallbackList(user_inputs, ParseRecords(splitlines(strip(content)), EmptyDict))

\* how many lines the classifier's response has at most
MaxLines == 3

\* how many unclassified entries a sheet sends at most
MaxInputs == 2

\* lines as transform_data_for_LLM writes them
UserLines == {"a | EU  | kg | 1.5", "b | nan  | l | 2"}

\* lines a response may hold
ResponseLines ==
    { "1. x | RER | kg | 2", "1. y", " 1 .Unknown ", "2. unknown", "3. w", "n. 1",
      "no record" }

RECURSIVE Joined(_, _)
\* the texts of at most n lines of L, each line but the first after a line break
Joined(L, n) ==
    IF n = 0 THEN {""}
    ELSE LET shorter == Joined(L, n - 1)
         IN shorter \cup L \cup {t \o "\n" \o l : t \in shorter \ {""}, l \in L}
                    \cup {"\n" \o l : l \in L}

RECURSIVE Lists(_, _)
\* the lists of at most n elements of S
Lists(S, n) ==
    IF n = 0 THEN {<<>>}
    ELSE LET shorter == Lists(S, n - 1)
         IN shorter \cup {Append(l, x) : l \in shorter, x \in S}

InitParse ==
    /\ norm = Idle /\ conv = Idle /\ split = Idle /\ recon = Idle /\ sheet = Idle /\ run = Idle
    /\ \E u \in Lists(UserLines, MaxInputs), t \in Joined(ResponseLines, MaxLines) :
        parse = [pc |-> "response", user_inputs |-> u, content |-> t, out |-> <<>>]

\* prompt_LLM from the response on: strip, split into lines, parse, fall back
ParseResponse ==
    /\ parse.pc = "response"
    /\ parse' = [parse EXCEPT !.pc = "returned",
                              !.out = parse_response(parse.user_inputs, parse.content)]
    /\ UNCHANGED <<norm, conv, split, recon, sheet, run>>

ParseNext == ParseResponse

(***************************************************************************)
(* The calls of prompt_LLM.  A call is the record of the keyword arguments *)
(* of client.chat.completions.create; it ends with a response or with an   *)
(* exception of the client.                                                *)
(***************************************************************************)
\* the first call, with the sampling parameters of the configuration
FirstCall ==
    [model |-> "model", messages |-> "prompt", temperature |-> "temperature",
     top_p |-> "top_p", timeout |-> 900]

\* the call of the except branch
SecondCall == [model |-> "model", messages |-> "prompt"]

\* the exceptions a call may end with
CallErrors == {"BadRequestError", "APITimeoutError", "AuthenticationError"}

\* what the classifier may answer to one call
CallContents == Joined(ResponseLines, 1)

\* where prompt_LLM goes when its n-th call raises whatever error
handler_retry_any(n, error) == IF n < 3 THEN "retry" ELSE "raised"

\* where prompt_LLM goes when its n-th call raises error: `except
\* BadRequestError` guards the first call only
handler(n, error) == IF n = 1 /\ error = "BadRequestError" THEN "retry" ELSE "raised"

InitPrompt ==
    /\ norm = Idle /\ conv = Idle /\ split = Idle /\ recon = Idle /\ sheet = Idle /\ run = Idle
    /\ \E inputs \in Lists(UserLines, MaxInputs) :
        parse = [pc |-> "request", user_inputs |-> inputs, calls |-> <<>>,
                 outcomes |-> <<>>, content |-> "", out |-> <<>>, raised |-> ""]

\* one call `create(**kwargs)` and how it ends
Call(kwargs) ==
    \/ \E content \in CallContents :
        parse' = [parse EXCEPT !.pc = "response", !.content = content,
                               !.calls = Append(@, kwargs),
                               !.outcomes = Append(@, "ok")]
    \/ \E error \in CallErrors :
        LET next == handler(Len(parse.calls) + 1, error)
        IN parse' = [parse EXCEPT !.pc = next,
                                  !.raised = IF next = "raised" THEN error ELSE @,
                                  !.calls = Append(@, kwargs),
                                  !.outcomes = Append(@, error)]

\* prompt_LLM, the call in the try block
PromptFirstCall ==
    /\ parse.pc = "request"
    /\ Call(FirstCall)
    /\ UNCHANGED <<norm, conv, split, recon, sheet, run>>

\* prompt_LLM, the call in the except block
PromptRetryCall ==
    /\ parse.pc = "retry"
    /\ Call(SecondCall)
    /\ UNCHANGED <<norm, conv, split, recon, sheet, run>>

PromptNext == PromptFirstCall \/ PromptRetryCall \/ ParseResponse

\* float(s) for text of digits, signs, one kind of point, letters other than
\* those of "inf", "nan" and exponents, blanks and punctuation: blanks around,
\* an optional sign, digits with at most one point and at least one digit;
\* anything else is a ValueError.  The value is kept in thousandths.
ParseFloat(s) ==
    LET t == strip(s)
        signed == t # "" /\ At(t, 1) \in {"+", "-"}
        body == IF signed THEN Tail(t) ELSE t
        dot == Find(body, ".")
        whole == IF dot = 0 THEN body ELSE SubSeq(body, 1, dot - 1)
        frac == IF dot = 0 THEN "" ELSE SubSeq(body, dot + 1, Len(body))
        wellFormed == /\ whole = "" \/ AllDigits(whole)
                      /\ frac = "" \/ AllDigits(frac)
                      /\ whole # "" \/ frac # ""
                      /\ Len(frac) <= 3
        thousandths == 1000 * DigitsValue(whole) + DigitsValue(SubSeq(frac \o "000", 1, 3))
    IN IF wellFormed
       THEN [ok |-> TRUE, value |-> IF signed /\ At(t, 1) = "-" THEN 0 - thousandths
                                    ELSE thousandths]
       ELSE [ok |-> FALSE, value |-> 0]

\* the four fields split_LLM_results makes of one result
SplitFields(r) ==
    IF lower(strip(r)) # "unknown"
    THEN SubSeq(str_split(strip(r), " | ") \o <<"", "", "", "">>, 1, 4)
    ELSE <<"unknown", "unknown", "unknown", "unknown">>

\* the QUANTITY of one result: float(r[3]) unless the field is blank or "N/A"
SplitQuantity(fields) ==
    IF strip(fields[4]) \in {"", "N/A"} THEN [ok |-> TRUE, value |-> 0]
    ELSE ParseFloat(fields[4])

\* split_LLM_results: the table of the results, or the ValueError of float()
split_LLM_results(results) ==
    LET fields == [i \in 1..Len(results) |-> SplitFields(results[i])]
    IN IF \E i \in 1..Len(results) : ~SplitQuantity(fields[i]).ok
       THEN [raised |-> "ValueError", table |-> <<>>]
       ELSE [raised |-> "",
             table |-> [i \in 1..Len(results) |->
                [name |-> fields[i][1], ORIGIN |-> fields[i][2], UNIT |-> fields[i][3],
                 QUANTITY |-> SplitQuantity(fields[i]).value]]]

\* how many results split_LLM_results is given at most
MaxResults == 2

\* results as prompt_LLM returns them, mapped or fallen back to the input
ResultLines ==
    { "a | EU  | kg | 1.5", "x | RER | kg | 2", "y | GLO", "z | air | kg | N/A",
      "w | RER | kg | ", "v | RER | kg | 2 | note", "u | RER | l | about 2",
      "t | RER | l | 1,5", "unknown", " Unknown ", "" }

InitSplit ==
    /\ norm = Idle /\ conv = Idle /\ parse = Idle /\ recon = Idle /\ sheet = Idle /\ run = Idle
    /\ \E r \in Lists(ResultLines, MaxResults) :
        split = [pc |-> "results", results |-> r, raised |-> "", table |-> <<>>]

\* x2bw.py: LCI_sheet_modify_wo_production = llm.split_LLM_results(results)
SplitResults ==
    /\ split.pc = "results"
    /\ LET t == split_LLM_results(split.results)
       IN split' = [split EXCEPT !.pc = "returned", !.raised = t.raised, !.table = t.table]
    /\ UNCHANGED <<norm, conv, parse, recon, sheet, run>>

SplitNext == SplitResults

(***************************************************************************)
(* Reconciler: compare_results.  A table is its list of column names and   *)
(* its rows, each row the list of its cells in column order.  A cell is a  *)
(* number, a text or missing; numbers are exact decimals counted in units  *)
(* of 1e-9, so 1.0 is 1000000000 and the tolerance 1e-8 is 10.             *)
(***************************************************************************)
Num(n) == [kind |-> "num", num |-> n, str |-> ""]

Str(t) == [kind |-> "str", num |-> 0, str |-> t]

Missing == [kind |-> "nan", num |-> 0, str |-> ""]

Abs(n) == IF n < 0 THEN 0 - n ELSE n

\* the quotient n / d (n >= 0, d > 0) rounded to the nearest integer, halves to even
RoundHalfEven(n, d) ==
    LET q == n \div d
        r == n % d
    IN IF 2 * r < d THEN q
       ELSE IF 2 * r > d THEN q + 1
       ELSE IF q % 2 = 0 THEN q ELSE q + 1

\* the default float_tolerance of compare_results, 1e-8
float_tolerance == 10

\* Series.round(decimals=5) of a cell of a numeric column
Round5(cell) ==
    IF cell.kind # "num" THEN cell
    ELSE Num((IF cell.num < 0 THEN -1 ELSE 1) * 10000 * RoundHalfEven(Abs(cell.num), 10000))

\* np.isclose with equal_nan left at its default, False
isclose_nan_differs(a, b, atol) ==
    IF a.kind = "nan" \/ b.kind = "nan" THEN FALSE
    ELSE LET excess == Abs(a.num - b.num) - atol
         IN excess <= 0 \/ (excess <= 21474 /\ excess * 100000 <= Abs(b.num))

\* np.isclose(a, b, atol, equal_nan=True) with numpy's default rtol = 1e-5:
\* |a - b| <= atol + rtol * |b|
isclose(a, b, atol) ==
    IF a.kind = "nan" \/ b.kind = "nan" THEN a.kind = "nan" /\ b.kind = "nan"
    ELSE LET excess == Abs(a.num - b.num) - atol
         IN excess <= 0 \/ (excess <= 21474 /\ excess * 100000 <= Abs(b.num))

\* pd.to_numeric(errors='coerce') of one cell
to_numeric(cell) ==
    IF cell.kind # "str" THEN cell
    ELSE IF ParseFloat(cell.str).ok THEN Num(1000000 * ParseFloat(cell.str).value)
    ELSE Missing

\* astype(str).str.strip() of one cell of a column of texts and missing cells
astype_str(cell) == IF cell.kind = "nan" THEN Str("nan") ELSE Str(strip(cell.str))

\* the columns as they are named: no .str.strip().str.lower()
StandardColumns_raw(df) == df.columns

\* the column names after .str.strip().str.lower()
StandardColumns(df) == [j \in 1..Len(df.columns) |-> lower(strip(df.columns[j]))]

\* the position of column c among the standardized column names cols
ColumnAt(cols, c) == CHOOSE j \in 1..Len(cols) : cols[j] = c

\* pd.api.types.is_numeric_dtype of column j: every cell a number or missing
is_numeric_dtype(df, j) ==
    df.rows # <<>> /\ \A i \in 1..Len(df.rows) : df.rows[i][j].kind # "str"

\* compare_results(df1, df2, float_tolerance): the verdict per row and the
\* statistics it prints, or the exception it raises
compare_results(df1, df2, atol) ==
    LET cols1 == StandardColumns(df1)
        cols2 == StandardColumns(df2)
        names1 == {cols1[j] : j \in 1..Len(cols1)}
        names2 == {cols2[j] : j \in 1..Len(cols2)}
        failed(e) == [raised |-> e, labels |-> <<>>, mapped |-> 0, unmapped |-> 0,
                      rate |-> "none"]
        numeric(c) == \/ is_numeric_dtype(df1, ColumnAt(cols1, c))
                      \/ is_numeric_dtype(df2, ColumnAt(cols2, c))
        prepared(df, cols, i, c) ==
            IF numeric(c) THEN Round5(to_numeric(df.rows[i][ColumnAt(cols, c)]))
            ELSE astype_str(df.rows[i][ColumnAt(cols, c)])
        same(i, c) ==
            LET x == prepared(df1, cols1, i, c)
                y == prepared(df2, cols2, i, c)
            IN IF numeric(c) THEN isclose(x, y, atol) ELSE x = y
        labels == [i \in 1..Len(df1.rows) |->
                    IF \A c \in names1 : same(i, c) THEN "Equal" ELSE "Not Equal"]
        total == Len(df1.rows)
        num_equal == Cardinality({i \in 1..total : labels[i] = "Equal"})
    IN IF ~\E j \in 1..Len(df1.columns) : df1.columns[j] = "QUANTITY" THEN failed("KeyError")
       ELSE IF ~\E j \in 1..Len(df2.columns) : df2.columns[j] = "QUANTITY" THEN failed("KeyError")
       ELSE IF Cardinality(names1) # Len(cols1) \/ Cardinality(names2) # Len(cols2)
            THEN failed("ValueError")
       ELSE IF names1 # names2 THEN failed("ValueError")
       ELSE [raised |-> "", labels |-> labels,
             mapped |-> total - num_equal, unmapped |-> num_equal,
             rate |-> IF total = 0 THEN "nan"
                      ELSE ToString(RoundHalfEven((total - num_equal) * 100, total)) \o "%"]

\* how many rows a compared table has at most
MaxTableRows == 2

\* names and quantities of the compared rows: 4.999e-6, 5.001e-6, 1.0,
\* 1.000001, 1.00002 and a missing quantity
ReconNames == {Str("a"), Missing}

ReconQuantities == {Num(4999), Num(5001), Num(1000000000), Num(1000001000), Num(1000020000), Missing}

\* the tables that differ from df in at most one cell
OneCellChanged(df) ==
    {df} \cup
    { [df EXCEPT !.rows[i][1] = v] :
        i \in 1..Len(df.rows), v \in ReconNames \cup {Str(" a"), Str("b")} } \cup
    { [df EXCEPT !.rows[i][2] = v] : i \in 1..Len(df.rows), v \in ReconQuantities }

\* column names of the second table: the same, written differently, another
\* name, no column spelled QUANTITY, one column more and one column less
ReconColumns ==
    { <<"name", "QUANTITY">>, <<" Name", "QUANTITY">>, <<"label", "QUANTITY">>,
      <<"name", "quantity">>, <<"name", "QUANTITY", "unit">>, <<"QUANTITY">> }


InitRecon ==
    /\ norm = Idle /\ conv = Idle /\ parse = Idle /\ split = Idle /\ sheet = Idle /\ run = Idle
    /\ \E rows \in Lists({<<n, q>> : n \in ReconNames, q \in ReconQuantities}, MaxTableRows) :
        \E other \in OneCellChanged([columns |-> <<"name", "QUANTITY">>, rows |-> rows]),
           cols \in ReconColumns :
            recon = [pc |-> "tables",
                     df1 |-> [columns |-> <<"name", "QUANTITY">>, rows |-> rows],
                     df2 |-> [columns |-> cols,
                              rows |-> [i \in 1..Len(other.rows) |->
                                          IF Len(cols) = 3
                                            THEN Append(other.rows[i], Str("kg"))
                                          ELSE IF Len(cols) = 1 THEN <<other.rows[i][2]>>
                                          ELSE other.rows[i]]],
                     out |-> [raised |-> "", labels |-> <<>>, mapped |-> 0, unmapped |-> 0,
                              rate |-> "none"]]

\* x2bw.py: h.compare_results(before, after), the tolerance at its default
ReconCompare ==
    /\ recon.pc = "tables"
    /\ recon' = [recon EXCEPT !.pc = "returned",
                              !.out = compare_results(recon.df1, recon.df2, float_tolerance)]
    /\ UNCHANGED <<norm, conv, parse, split, sheet, run>>

ReconNext == ReconCompare

(***************************************************************************)
(* One sheet through the pipeline of x2bw_transformation: by-product       *)
(* handling (process_dataframe), the names (rules or LLM), the units, and  *)
(* the classification.  A row is a record of the sheet's columns; 'index'  *)
(* is its DataFrame index label, Unnamed_1 the marker column 'Unnamed: 1', *)
(* FLOW_NAME the column 'FLOW NAME'.  A column that does not exist yet, or *)
(* holds None, is NaN.  QUANTITY is a number cell counted in thousandths.  *)
(***************************************************************************)
SheetRow(marker, flow, description, origin, unit, quantity) ==
    [index |-> 0, Unnamed_1 |-> marker, FLOW_NAME |-> flow, DESCRIPTION |-> description,
     ORIGIN |-> origin, UNIT |-> unit, QUANTITY |-> quantity,
     name |-> NaN, amount |-> [q |-> Missing, ops |-> <<>>], unit |-> NaN,
     categories |-> NaN, location |-> NaN, type |-> NaN, database |-> NaN]

\* the labels of the rows of df
IndexOf(df) == {df[k].index : k \in 1..Len(df)}

\* df.at[index, ...] of a label that df has
RowAt(df, index) == df[CHOOSE k \in 1..Len(df) : df[k].index = index]

\* df.at[index, 'Unnamed: 1'] = 'INPUTS'; a label df does not have is added
\* as a new row whose other cells are missing
at_set_INPUTS(df, index) ==
    IF index \in IndexOf(df)
    THEN [k \in 1..Len(df) |-> IF df[k].index = index
                               THEN [df[k] EXCEPT !.Unnamed_1 = "INPUTS"] ELSE df[k]]
    ELSE Append(df, [SheetRow("INPUTS", NaN, NaN, NaN, NaN, Missing) EXCEPT !.index = index])

\* the quantity left as it is
at_keep_QUANTITY(df, index) == df

\* df.at[index, 'QUANTITY'] *= -1
at_negate_QUANTITY(df, index) ==
    [k \in 1..Len(df) |->
        IF df[k].index = index /\ df[k].QUANTITY.kind = "num"
        THEN [df[k] EXCEPT !.QUANTITY = Num(0 - @.num)] ELSE df[k]]

\* df[df['DESCRIPTION'] != "no avoided burden"]
drop_no_avoided_burden(df) ==
    LET keep(r) == r.DESCRIPTION # "no avoided burden" IN SelectSeq(df, keep)

RECURSIVE process_rows(_, _, _, _, _)
\* the loop of process_dataframe from row i of the sheet as it was read
\* (iterrows goes over the original rows), df the current table
process_rows(rows, i, df, products_count, product_list) ==
    IF i > Len(rows) THEN [raised |-> "", df |-> df, product_list |-> product_list]
    ELSE IF rows[i].Unnamed_1 # "PRODUCTS"
    THEN process_rows(rows, i + 1, df, products_count, product_list)
    ELSE LET count == products_count + 1
             index == rows[i].index
             avoided == ~\E k \in 1..Len(df) : df[k].DESCRIPTION = "no avoided burden"
             changed == IF count > 1 /\ avoided
                        THEN at_negate_QUANTITY(at_set_INPUTS(df, index), index) ELSE df
             kept == IF count > 1 THEN drop_no_avoided_burden(changed) ELSE df
         IN IF index \notin IndexOf(kept)
            THEN [raised |-> "KeyError", df |-> kept, product_list |-> product_list]
            ELSE process_rows(rows, i + 1, kept, count,
                              Append(product_list, RowAt(kept, index).FLOW_NAME))

\* process_dataframe without product_list.append
process_dataframe_unregistered(df, product_list) ==
    [process_rows(df, 1, df, 0, product_list) EXCEPT !.product_list = product_list]

\* process_dataframe(df, product_list)
process_dataframe(df, product_list) == process_rows(df, 1, df, 0, product_list)

\* str() of a text cell and repr of a float
pystr(s) == IF isna(s) THEN "nan" ELSE s

FormatFloat(cell) ==
    IF cell.kind # "num" THEN "nan"
    ELSE LET a == Abs(cell.num)
             f == a % 1000
             digits == IF f % 100 = 0 THEN ToString(f \div 100)
                       ELSE IF f % 10 = 0
                            THEN ToString(f \div 100) \o ToString((f \div 10) % 10)
                       ELSE ToString(f \div 100) \o ToString((f \div 10) % 10)
                            \o ToString(f % 10)
         IN (IF cell.num < 0 THEN "-" ELSE "") \o ToString(a \div 1000) \o "." \o digits

\* Series.isin(product_list)
isin(v, list) == \E k \in 1..Len(list) : list[k] = v

\* transform_data_for_LLM(df, product_list)
transform_data_for_LLM(df, product_list) ==
    LET product(r) == str_contains_nocase(r.Unnamed_1, "products")
        internal(r) == isin(r.name, product_list)
        other(r) == ~isin(r.name, product_list)
        wo_production == SelectSeq(df, other)
    IN [user_inputs |-> [k \in 1..Len(wo_production) |->
                            pystr(wo_production[k].name) \o " | "
                            \o pystr(wo_production[k].ORIGIN) \o "  | "
                            \o pystr(wo_production[k].UNIT) \o " | "
                            \o FormatFloat(wo_production[k].QUANTITY)],
        product_row |-> IF SelectSeq(df, product) = <<>> THEN <<>>
                        ELSE <<Head(SelectSeq(df, product))>>,
        internal_activities |-> SelectSeq(df, internal),
        wo_production |-> wo_production]

\* DataFrame.drop_duplicates().reset_index(drop=True): the first of equal rows
\* stays, the labels are not compared, and the rows are numbered anew
drop_duplicates(df) ==
    LET placed == [k \in 1..Len(df) |-> [df[k] EXCEPT !.index = k]]
        first(r) == \A j \in 1..(r.index - 1) : [placed[j] EXCEPT !.index = r.index] # r
        kept == SelectSeq(placed, first)
    IN [k \in 1..Len(kept) |-> [kept[k] EXCEPT !.index = k]]

\* the rows pd.concat makes of the table of split_LLM_results
LLMRows(table) ==
    [k \in 1..Len(table) |->
        [SheetRow(NaN, NaN, NaN, table[k].ORIGIN, table[k].UNIT, Num(table[k].QUANTITY))
            EXCEPT !.name = table[k].name]]

\* set_category_to_air, applied in the rule branch only
set_category_to_air(row) ==
    IF \/ str_contains_nocase(row.name, "carbon dioxide, fossil")
       \/ str_contains_nocase(row.name, "carbon dioxide, from soil or biomass stock")
    THEN [row EXCEPT !.categories = "air"] ELSE row

\* set_category_from_location
set_category_from_location(row) ==
    IF \E w \in {"water", "air", "natural", "soil", "inventory", "economic"} :
            ContainsWord(pystr(row.ORIGIN), w)
    THEN [row EXCEPT !.categories = row.ORIGIN] ELSE row

\* set_location with the overrides by name applied before the origin rules
set_location_origin_last(row) ==
    LET l0 == IF row.name \in {"market group for natural gas, high pressure",
                               "market for wastewater, average"}
              THEN "Europe without Switzerland"
              ELSE IF row.name \in {"market for cooling energy",
                                    "market for chemical factory, organics"}
              THEN "GLO" ELSE row.ORIGIN
        l1 == IF row.ORIGIN \in {"EUR", "EU"} THEN "RER" ELSE l0
    IN [row EXCEPT !.location = IF l1 = "" \/ isna(l1) THEN "RER" ELSE l1]

\* location = ORIGIN, then set_location
set_location(row) ==
    LET l1 == IF row.ORIGIN \in {"EUR", "EU"} THEN "RER" ELSE row.ORIGIN
        l2 == IF l1 = "" \/ isna(l1) THEN "RER" ELSE l1
    IN [row EXCEPT !.location =
            IF row.name \in {"market group for natural gas, high pressure",
                             "market for wastewater, average"}
            THEN "Europe without Switzerland"
            ELSE IF row.name \in {"market for cooling energy",
                                  "market for chemical factory, organics"}
            THEN "GLO" ELSE l2]

\* set_type: np.select over the two conditions, default technosphere
set_type(row) ==
    [row EXCEPT !.type =
        np_select(<<str_contains_nocase(row.Unnamed_1, "products"),
                    \E w \in {"water", "air", "natural", "soil"} :
                        Contains(pystr(row.categories), w)>>,
                  <<"production", "biosphere">>, "technosphere")]

\* determine_database
determine_database(row) ==
    [row EXCEPT !.database =
        CASE row.type = "biosphere" -> "biosphere3"
          [] row.type = "technosphere" -> "background_database_name"
          [] row.type = "production" -> "activity_database_name"
          [] OTHER -> NaN]

\* the sheet before transform_data_for_LLM has been called on it
NotTransformed ==
    [LCI_sheet_modify |-> <<>>, user_inputs |-> <<>>, product_row |-> <<>>,
     internal_activities |-> <<>>, wo_production |-> <<>>, results |-> <<>>,
     split |-> <<>>]

\* how many rows a sheet has at most
MaxSheetRows == 3

\* the rows the sheets are made of (every sheet has a PRODUCTS row): a product, by-products without and with
\* the statement "no avoided burden", a row under a marker that contains
\* PRODUCTS in another case and as a part, inputs and an emission
SheetCatalogue ==
    { SheetRow("PRODUCTS", "product A", NaN, NaN, "kg", Num(1000)),
      SheetRow("PRODUCTS", "product B", NaN, NaN, "kg", Num(500)),
      SheetRow("PRODUCTS", "product C", "no avoided burden", NaN, "kg", Num(250)),
      SheetRow("By-products", "product D", NaN, NaN, "kg", Num(500)),
      SheetRow("INPUTS", "#electricity", NaN, "EU", "kWh", Num(2000)),
      SheetRow("INPUTS", "water", "no avoided burden", NaN, "l", Num(3000)),
      SheetRow("EMISSIONS", "Carbon dioxide, fossil", NaN, "air", "kg", Num(1500)) }

\* LLM_mapping and ecoinvent_version of a run
SheetModes == {<<FALSE, "3.10">>, <<FALSE, "3.11">>, <<TRUE, "3.11">>}

\* the products the other sheets of the workbook have put on the product list
OtherProducts == {<<>>, <<"water">>}

\* what the LLM may answer
SheetResponses ==
    { "",
      "1. market for electricity, medium voltage | RER | kWh | 2.0\n2. Water | water | m3 | 0.003",
      "1. tap water | RER | l | about 3" }

InitSheet ==
    /\ norm = Idle /\ conv = Idle /\ parse = Idle /\ split = Idle /\ recon = Idle /\ run = Idle
    /\ \E rows \in Lists(SheetCatalogue, MaxSheetRows),
          mode \in SheetModes, others \in OtherProducts :
        /\ \E k \in 1..Len(rows) : rows[k].Unnamed_1 = "PRODUCTS"
        /\ sheet = [pc |-> "read", LLM_mapping |-> mode[1], ecoinvent_version |-> mode[2],
                    product_list |-> others, raised |-> "",
                    transform |-> NotTransformed,
                    template |-> [location |-> NaN, unit |-> NaN],
                    df |-> [k \in 1..Len(rows) |-> [rows[k] EXCEPT !.index = k]]]

\* x2bw.py, by-product handling: process_dataframe(df, product_list)
SheetProcessDataframe ==
    /\ sheet.pc = "read"
    /\ LET r == process_dataframe(sheet.df, sheet.product_list)
       IN sheet' = [sheet EXCEPT !.pc = IF r.raised = "" THEN "processed" ELSE "failed",
                                 !.raised = r.raised,
                                 !.df = r.df,
                                 !.product_list = r.product_list]
    /\ UNCHANGED <<norm, conv, parse, split, recon, run>>

\* x2bw.py, LLM_mapping == False: name, amount, map_common_names and, for
\* ecoinvent 3.10, ecoinvent_3_10_names
SheetNamesRule ==
    /\ sheet.pc = "processed"
    /\ ~sheet.LLM_mapping
    /\ LET named(r) == map_common_names([r EXCEPT !.name = r.FLOW_NAME,
                                                  !.amount.q = r.QUANTITY])
           versioned(r) == IF sheet.ecoinvent_version = "3.10"
                           THEN ecoinvent_3_10_names(named(r)) ELSE named(r)
       IN sheet' = [sheet EXCEPT !.pc = "named",
                                 !.df = [k \in 1..Len(sheet.df) |-> versioned(sheet.df[k])]]
    /\ UNCHANGED <<norm, conv, parse, split, recon, run>>

\* x2bw.py, LLM_mapping == True: name, transform_data_for_LLM, prompt_LLM,
\* split_LLM_results, the concatenation without duplicates, amount.
\* compare_results works on copies of the two tables and only prints.
SheetNamesLLM ==
    /\ sheet.pc = "processed"
    /\ sheet.LLM_mapping
    /\ \E content \in SheetResponses :
        \E t \in {transform_data_for_LLM(
                    [k \in 1..Len(sheet.df) |->
                        [sheet.df[k] EXCEPT !.name = sheet.df[k].FLOW_NAME]],
                    sheet.product_list)} :
        \E results \in {parse_response(t.user_inputs, content)} :
        \E mapped \in {split_LLM_results(results)} :
        \E all \in {drop_duplicates(t.product_row \o LLMRows(mapped.table)
                                    \o t.internal_activities)} :
            sheet' = [sheet EXCEPT
                        !.pc = IF mapped.raised = "" THEN "named" ELSE "failed",
                        !.raised = mapped.raised,
                        !.transform =
                            [LCI_sheet_modify |->
                                [k \in 1..Len(sheet.df) |->
                                    [sheet.df[k] EXCEPT !.name = sheet.df[k].FLOW_NAME]],
                             user_inputs |-> t.user_inputs,
                             product_row |-> t.product_row,
                             internal_activities |-> t.internal_activities,
                             wo_production |-> t.wo_production,
                             results |-> results,
                             split |-> mapped.table],
                        !.df = IF mapped.raised # "" THEN @
                               ELSE [k \in 1..Len(all) |->
                                        [all[k] EXCEPT !.amount.q = all[k].QUANTITY]]]
    /\ UNCHANGED <<norm, conv, parse, split, recon, run>>

\* x2bw.py: unit = UNIT.apply(map_unit) and, in the rule branch, unit_conversion
SheetUnits ==
    /\ sheet.pc = "named"
    /\ LET unit(r) == [r EXCEPT !.unit = map_unit(r.UNIT)]
           converted == [k \in 1..Len(sheet.df) |->
                            IF sheet.LLM_mapping THEN unit(sheet.df[k])
                            ELSE unit_conversion(unit(sheet.df[k]))]
           failing == {k \in 1..Len(converted) : IsRaised(converted[k])}
       IN sheet' = IF failing = {}
                   THEN [sheet EXCEPT !.pc = "units", !.df = converted]
                   ELSE [sheet EXCEPT !.pc = "failed",
                            !.raised = converted[CHOOSE k \in failing :
                                                    \A j \in failing : k <= j].raised]
    /\ UNCHANGED <<norm, conv, parse, split, recon, run>>

\* x2bw.py: categories, location, set_type and the database of every row
SheetClassify ==
    /\ sheet.pc = "units"
    /\ LET categories(r) == set_category_from_location(
                                IF sheet.LLM_mapping THEN r ELSE set_category_to_air(r))
           classified(r) == determine_database(set_type(set_location(categories(r))))
       IN sheet' = [sheet EXCEPT !.pc = "classified",
                                 !.df = [k \in 1..Len(sheet.df) |-> classified(sheet.df[k])]]
    /\ UNCHANGED <<norm, conv, parse, split, recon, run>>

\* description_to_bw_input_sheet: the location and unit cells of the template
\* block, from LCI_sheet[sheet_name].iloc[0]
description_to_bw_input_sheet(LCI_sheet_modify) ==
    [location |-> LCI_sheet_modify[1].location, unit |-> LCI_sheet_modify[1].unit]

\* x2bw.py: bw_example_sheets = p.description_to_bw_input_sheet(...); iloc[0]
\* of a sheet without rows raises IndexError
SheetDescription ==
    /\ sheet.pc = "classified"
    /\ sheet' = IF sheet.df = <<>>
                  THEN [sheet EXCEPT !.pc = "failed", !.raised = "IndexError"]
                  ELSE [sheet EXCEPT !.pc = "described",
                                     !.template = description_to_bw_input_sheet(sheet.df)]
    /\ UNCHANGED <<norm, conv, parse, split, recon, run>>

\* names, origins and markers of the entries the classification is given
ClassNames ==
    { "Carbon dioxide, fossil", "carbon dioxide, from soil or biomass stock",
      "market group for natural gas, high pressure", "market for wastewater, average",
      "market for cooling energy", "market for chemical factory, organics",
      "market for electricity, medium voltage", "Market for cooling energy", "Water", NaN }

ClassOrigins ==
    { NaN, "", " ", "EU", "EUR", "RER", "CH", "air", "water, ground",
      "natural resource; in ground", "soil", "inventory indicator", "economic",
      "rainwater", "Air" }

ClassMarkers == {"PRODUCTS", "By-products", "INPUTS", "EMISSIONS", NaN}

\* one entry as the name and unit steps leave it, before the classification
InitClass ==
    /\ norm = Idle /\ conv = Idle /\ parse = Idle /\ split = Idle /\ recon = Idle /\ run = Idle
    /\ \E n \in ClassNames, o \in ClassOrigins, m \in ClassMarkers, llm \in BOOLEAN :
        sheet = [pc |-> "units", LLM_mapping |-> llm, ecoinvent_version |-> "3.10",
                 product_list |-> <<>>, raised |-> "", transform |-> NotTransformed,
                 template |-> [location |-> NaN, unit |-> NaN],
                 df |-> << [SheetRow(m, NaN, NaN, o, "kg", Num(1000))
                                EXCEPT !.index = 1, !.name = n, !.unit = "kilogram",
                                       !.amount.q = Num(1000)] >>]

SheetNext ==
    \/ SheetProcessDataframe
    \/ SheetNamesRule
    \/ SheetNamesLLM
    \/ SheetUnits
    \/ SheetClassify
    \/ SheetDescription

(***************************************************************************)
(* Merging of the sheets (processing.merge_sheets).  A table is its number *)
(* of columns and its rows; a row is identified by the sheet it belongs    *)
(* to, the part it comes from and its position there.  The template block  *)
(* of a sheet is the copy of the example sheet that                        *)
(* description_to_bw_input_sheet cuts to its first TemplateRows rows; the  *)
(* entries of a sheet are its rows from the column 'name' on.              *)
(***************************************************************************)
\* how many sheets a sheet list names
MaxSheets == 2

\* how many entries a sheet has
MaxEntries == 2

\* bw_example_sheet_modify.iloc[:15]
TemplateRows == 15

\* the rows that are dropped from the template block of a later sheet
HeaderRows == 3

SheetNamesOf == {"A", "B", "C"}

Block(name, part, n, w) ==
    [width |-> w, rows |-> [i \in 1..n |-> [sheet |-> name, part |-> part, row |-> i]]]

\* bw_example_sheets[sheet_name].iloc[:, :] in the first iteration, .iloc[3:, :] later
bw_example_sheet_selected_all(is_first_iteration, template) == template

bw_example_sheet_selected(is_first_iteration, template) ==
    IF is_first_iteration
      THEN template
      ELSE [template EXCEPT !.rows = IF Len(template.rows) <= HeaderRows THEN <<>>
                                     ELSE SubSeq(template.rows, HeaderRows + 1,
                                                 Len(template.rows))]

\* np.concatenate([a.values, b.values]) raises unless the widths agree
concatenate(a, b) == [width |-> a.width, rows |-> a.rows \o b.rows]

\* the sheet list, the mapped sheets and their template blocks as
\* x2bw_transformation hands them over: every template block is a copy of
\* one example sheet, and every sheet has its product row
InitMerge ==
    /\ norm = Idle /\ conv = Idle /\ parse = Idle /\ split = Idle /\ recon = Idle
    /\ sheet = Idle
    /\ \E len \in 1..MaxSheets :
       \E names \in [1..len -> SheetNamesOf] :
       \E entries \in [SheetNamesOf -> 1..MaxEntries] :
       \E t \in (TemplateRows - 2)..TemplateRows, tw \in {7, 8}, ew \in {7, 8} :
         run = [pc |-> "merge", sheet_names |-> names,
                LCI_sheet |-> [s \in SheetNamesOf |-> Block(s, "entry", entries[s], ew)],
                bw_example_sheets |-> [s \in SheetNamesOf |-> Block(s, "template", t, tw)],
                k |-> 1, is_first_iteration |-> TRUE, is_first_iteration_2 |-> TRUE,
                final_bw_input_sheet |-> [width |-> 0, rows |-> <<>>], raised |-> ""]

\* one iteration of the loop over sheet_names
MergeIteration ==
    /\ run.pc = "merge"
    /\ run.k <= Len(run.sheet_names)
    /\ \E LCI_sheet_selected \in {run.LCI_sheet[run.sheet_names[run.k]]} :
       \E selected \in {bw_example_sheet_selected(run.is_first_iteration,
                            run.bw_example_sheets[run.sheet_names[run.k]])} :
         IF selected.width # LCI_sheet_selected.width
           THEN run' = [run EXCEPT !.pc = "raised", !.raised = "ValueError"]
           ELSE \E new_bw_example_sheet_data \in {concatenate(selected, LCI_sheet_selected)} :
                  run' = [run EXCEPT
                            !.k = @ + 1,
                            !.is_first_iteration = FALSE,
                            !.is_first_iteration_2 = FALSE,
                            !.final_bw_input_sheet =
                                IF run.is_first_iteration_2
                                  THEN new_bw_example_sheet_data
                                  ELSE concatenate(@, new_bw_example_sheet_data)]
    /\ UNCHANGED <<norm, conv, parse, split, recon, sheet>>

\* return final_bw_input_sheet
MergeReturn ==
    /\ run.pc = "merge"
    /\ run.k > Len(run.sheet_names)
    /\ run' = [run EXCEPT !.pc = "merged"]
    /\ UNCHANGED <<norm, conv, parse, split, recon, sheet>>

MergeNext == MergeIteration \/ MergeReturn

(***************************************************************************)
(* The passes of x2bw_transformation over the sheet list.  The workbook    *)
(* is a function from the names of the sheets it has to their rows; a      *)
(* frame is None or a DataFrame.  The mapping of one sheet is the subject  *)
(* of SpecSheet and the composition of the output that of SpecMerge; here  *)
(* a pass records which sheets it has handled.                             *)
(***************************************************************************)
\* a sheet of the workbook with its product, an input that is the product of
\* another sheet and, if products = 2, a by-product
WorkbookSheet(s, products) ==
    LET other == IF s = "A" THEN "B" ELSE IF s = "B" THEN "C" ELSE "A"
        rows == << SheetRow("PRODUCTS", "product " \o s, NaN, NaN, "kg", Num(1000)),
                   SheetRow("INPUTS", "product " \o other, NaN, "EU", "kg", Num(2000)),
                   SheetRow("PRODUCTS", "by-product " \o s, NaN, NaN, "kg", Num(500)) >>
    IN  [k \in 1..(products + 1) |-> [rows[k] EXCEPT !.index = k]]

\* the frame of a sheet the workbook has; a diagnostic and None otherwise
read_and_filter_specific_sheet(workbook, sheet_name) ==
    IF sheet_name \in DOMAIN workbook
      THEN [none |-> FALSE, df |-> workbook[sheet_name], printed |-> <<>>]
      ELSE [none |-> TRUE, df |-> <<>>,
            printed |-> <<"Sheet '" \o sheet_name \o "' not found in the spreadsheet file.">>]

\* dict[key] = value
SetItem(dict, key, value) ==
    [s \in DOMAIN dict \cup {key} |-> IF s = key THEN value ELSE dict[s]]

InitRun ==
    /\ norm = Idle /\ conv = Idle /\ parse = Idle /\ split = Idle /\ recon = Idle
    /\ sheet = Idle
    /\ \E len \in 1..MaxSheets :
       \E names \in [1..len -> SheetNamesOf] :
       \E present \in SUBSET SheetNamesOf :
       \E products \in [present -> 1..2], llm \in BOOLEAN :
         run = [pc |-> "read", k |-> 1, sheet_names |-> names, LLM_mapping |-> llm,
                workbook |-> [s \in present |-> WorkbookSheet(s, products[s])],
                printed |-> <<>>, LCI_sheet |-> <<>>, product_list |-> <<>>,
                LCI_sheet_description |-> {}, mapped |-> {}, internal |-> <<>>,
                saved |-> <<>>,
                raised |-> ""]

\* LCI_sheet[sheet_name] = p.read_and_filter_specific_sheet(xls_file_path, sheet_name)
RunReadSheet ==
    /\ run.pc = "read"
    /\ \E r \in {read_and_filter_specific_sheet(run.workbook, run.sheet_names[run.k])} :
         run' = [run EXCEPT
                   !.LCI_sheet = SetItem(@, run.sheet_names[run.k], [none |-> r.none, df |-> r.df]),
                   !.printed = @ \o r.printed,
                   !.k = IF run.k = Len(run.sheet_names) THEN 1 ELSE @ + 1,
                   !.pc = IF run.k = Len(run.sheet_names) THEN "by_products" ELSE @]
    /\ UNCHANGED <<norm, conv, parse, split, recon, sheet>>

\* df_processed, product_list = p.process_dataframe(df, product_list): the
\* loop over df.iterrows() of a frame that is None raises AttributeError
RunByProducts ==
    /\ run.pc = "by_products"
    /\ \E frame \in {run.LCI_sheet[run.sheet_names[run.k]]} :
         IF frame.none
           THEN run' = [run EXCEPT !.pc = "raised", !.raised = "AttributeError"]
           ELSE \E r \in {process_dataframe(frame.df, run.product_list)} :
                  IF r.raised # ""
                    THEN run' = [run EXCEPT !.pc = "raised", !.raised = r.raised]
                    ELSE run' = [run EXCEPT
                           !.LCI_sheet = SetItem(@, run.sheet_names[run.k],
                                                 [none |-> FALSE, df |-> r.df]),
                           !.product_list = r.product_list,
                           !.k = IF run.k = Len(run.sheet_names) THEN 1 ELSE @ + 1,
                           !.pc = IF run.k = Len(run.sheet_names) THEN "description" ELSE @]
    /\ UNCHANGED <<norm, conv, parse, split, recon, sheet>>

\* LCI_sheet_description[sheet_name], LCI_sheet_description =
\* p.read_and_filter_specific_description_sheet(...): the None returned for a
\* sheet the workbook lacks cannot be unpacked
RunDescription ==
    /\ run.pc = "description"
    /\ IF run.sheet_names[run.k] \notin DOMAIN run.workbook
         THEN run' = [run EXCEPT !.pc = "raised", !.raised = "TypeError",
                        !.printed = @ \o read_and_filter_specific_sheet(
                                             run.workbook, run.sheet_names[run.k]).printed]
         ELSE run' = [run EXCEPT
                        !.LCI_sheet_description = @ \cup {run.sheet_names[run.k]},
                        !.k = IF run.k = Len(run.sheet_names) THEN 1 ELSE @ + 1,
                        !.pc = IF run.k = Len(run.sheet_names) THEN "mapping" ELSE @]
    /\ UNCHANGED <<norm, conv, parse, split, recon, sheet>>

\* the mapping of one sheet: the name column and, with LLM_mapping, the
\* internal activities transform_data_for_LLM finds with the product list;
\* LCI_sheet[sheet_name] = LCI_sheet_modify
RunMapping ==
    /\ run.pc = "mapping"
    /\ \E LCI_sheet_modify \in
            {[k \in 1..Len(run.LCI_sheet[run.sheet_names[run.k]].df) |->
                [run.LCI_sheet[run.sheet_names[run.k]].df[k] EXCEPT
                    !.name = run.LCI_sheet[run.sheet_names[run.k]].df[k].FLOW_NAME]]} :
       run' = [run EXCEPT
                 !.internal =
                    IF run.LLM_mapping
                      THEN SetItem(@, run.sheet_names[run.k],
                                   transform_data_for_LLM(LCI_sheet_modify, run.product_list)
                                       .internal_activities)
                      ELSE @,
                 !.mapped = @ \cup {run.sheet_names[run.k]},
                 !.k = IF run.k = Len(run.sheet_names) THEN 1 ELSE @ + 1,
                 !.pc = IF run.k = Len(run.sheet_names) THEN "output" ELSE @]
    /\ UNCHANGED <<norm, conv, parse, split, recon, sheet>>

\* description_to_bw_input_sheet of every sheet, merge_sheets and to_excel
RunOutput ==
    /\ run.pc = "output"
    /\ run' = [run EXCEPT !.pc = "saved", !.saved = run.sheet_names]
    /\ UNCHANGED <<norm, conv, parse, split, recon, sheet>>

RunNext ==
    \/ RunReadSheet
    \/ RunByProducts
    \/ RunDescription
    \/ RunMapping
    \/ RunOutput

(***************************************************************************)
(* Specifications.                                                         *)
(***************************************************************************)
\* the Name Normalizer applied twice to one row
SpecNorm == InitNorm /\ [][NormNext]_vars

\* one pass of the unit steps over one row
SpecConv == InitConv /\ [][ConvNext]_vars

\* the parsing of one response of the classifier
SpecParse == InitParse /\ [][ParseNext]_vars

\* the converter chain of one entry in the order of the code and in another
SpecOrder == InitOrder /\ [][OrderNext]_vars

\* the classification of one entry
SpecClass == InitClass /\ [][SheetClassify]_vars

\* the calls of prompt_LLM for one sheet and the parsing of the answer
SpecPrompt == InitPrompt /\ [][PromptNext]_vars

\* the structuring of one list of results
SpecSplit == InitSplit /\ [][SplitNext]_vars

\* one comparison of two tables
SpecRecon == InitRecon /\ [][ReconNext]_vars

\* one sheet through by-product handling, mapping and classification
SpecSheet == InitSheet /\ [][SheetNext]_vars

\* one call of merge_sheets
SpecMerge == InitMerge /\ [][MergeNext]_vars

\* one run of x2bw_transformation over a workbook and its sheet list
SpecRun == InitRun /\ [][RunNext]_vars

(***************************************************************************)
(* Claims.                                                                 *)
(***************************************************************************)
\* the canonical names in the order of the rules: electricity, heat, natural
\* gas, waste water, CO2 fossil, CO2 biogenic, cooling
C1_Canonical ==
    << "market group for electricity, medium voltage",
       "market for heat, from steam, in chemical industry",
       "market group for natural gas, high pressure",
       "market for wastewater, average",
       "Carbon dioxide, fossil",
       "Carbon dioxide, from soil or biomass stock",
       "market for cooling energy" >>

\* C1: map_common_names replaces a name by the canonical name of the first
\* rule, in list order, whose predicate matches it (never a later rule's), and
\* leaves a name that matches no rule unchanged.
C1_FirstRuleWins ==
    norm.pc = 1 =>
        LET c == NameConditions(norm.input)
        IN /\ \A k \in 1..Len(c) :
                (c[k] /\ \A j \in 1..(k - 1) : ~c[j]) => norm.row.name = C1_Canonical[k]
           /\ (\A k \in 1..Len(c) : ~c[k]) => norm.row.name = norm.input

\* C1 witness: a name that matches two rules has been mapped to the first one's name
C1_Witness ==
    /\ norm.pc = 1
    /\ Cardinality({k \in 1..7 : NameConditions(norm.input)[k]}) >= 2
    /\ NameConditions(norm.input)[2]
    /\ norm.row.name = "market group for electricity, medium voltage"

\* C2: the Name Normalizer (rule pass, then literal substitutions) is
\* idempotent: applied twice it yields the name it yields applied once.
C2_Idempotent == norm.pc = 4 => norm.row.name = norm.once

\* C10: in one pass of unit_conversion at most one branch of at most one
\* converter assigns the entry's unit and amount, whatever the name and unit.
C10_AtMostOneConversion == conv.pc # "idle" => Len(conv.fired) <= 1

\* C10 witness: the pass is over for a name that passes the name test of two
\* converters, and exactly one branch has fired
C10_Witness ==
    /\ conv.pc = "done"
    /\ Len(conv.fired) = 1
    /\ Cardinality({k \in 1..Len(Converters) : NameTest(Converters[k], conv.row.name)}) >= 2

\* the records of the response as prompt_LLM reads them, line by line
C4_Parsed ==
    LET lines == splitlines(strip(parse.content))
    IN [k \in 1..Len(lines) |-> ParseLine(lines[k])]

\* the positions in recs of the records for the (1-based) input i
C4_Records(recs, i) == {k \in DOMAIN recs : recs[k].ok /\ recs[k].idx = i - 1}

\* C3: whatever the response text, the parsed list has exactly as many
\* elements as user_inputs.
C3_LengthPreserved == parse.pc = "returned" => Len(parse.out) = Len(parse.user_inputs)

\* C3 witness: a list was returned for two inputs from a response with a line
\* that holds no record, a record out of range and no record for the second input
C3_Witness ==
    /\ parse.pc = "returned"
    /\ Len(parse.user_inputs) = 2
    /\ LET recs == C4_Parsed
       IN /\ \E k \in DOMAIN recs : ~recs[k].ok
          /\ \E k \in DOMAIN recs : recs[k].ok /\ recs[k].idx >= 2
          /\ C4_Records(recs, 2) = {}

\* C4 as stated: the result at i is the value of any record with leading
\* integer i+1 whose value is not "unknown", and the original input otherwise.
C4_AnyRecordDecides ==
    parse.pc = "returned" =>
        /\ Len(parse.out) = Len(parse.user_inputs)
        /\ LET recs == C4_Parsed
           IN \A i \in 1..Len(parse.user_inputs) :
                LET known == {k \in C4_Records(recs, i) : lower(recs[k].value) # "unknown"}
                IN /\ \A k \in known : parse.out[i] = recs[k].value
                   /\ known = {} => parse.out[i] = parse.user_inputs[i]

\* C4 amended: the LAST record with leading integer i+1 decides: the result at
\* i is its value unless that value is "unknown" (case-insensitive); with no
\* such record, or "unknown", it is the original user_inputs[i]; no input is
\* dropped.
C4_LastRecordDecides ==
    parse.pc = "returned" =>
        /\ Len(parse.out) = Len(parse.user_inputs)
        /\ LET recs == C4_Parsed
           IN \A i \in 1..Len(parse.user_inputs) :
                LET mine == C4_Records(recs, i)
                IN IF mine = {} THEN parse.out[i] = parse.user_inputs[i]
                   ELSE LET k == CHOOSE k \in mine : \A j \in mine : j <= k
                        IN parse.out[i] = IF lower(recs[k].value) = "unknown"
                                          THEN parse.user_inputs[i] ELSE recs[k].value

\* C4 witness: records out of order, two of them for the first input with
\* different values, and the result holds the later value
C4_Witness ==
    /\ parse.pc = "returned"
    /\ Len(parse.user_inputs) = 2
    /\ LET recs == C4_Parsed
       IN /\ \E k \in C4_Records(recs, 2), j \in C4_Records(recs, 1) : k < j
          /\ \E k \in C4_Records(recs, 1), j \in C4_Records(recs, 1) :
                /\ k < j /\ recs[k].value # recs[j].value
                /\ lower(recs[k].value) # "unknown"
                /\ parse.out[1] = recs[j].value

\* C8: a line whose value is "unknown" (any case, blanks around) becomes the
\* sentinel record name "unknown", origin and unit empty, quantity 0.0, and
\* split_LLM_results does not raise.
C8_UnknownSentinel ==
    split.pc = "returned" =>
        \A i \in 1..Len(split.results) :
            lower(strip(split.results[i])) = "unknown" =>
                /\ split.raised = ""
                /\ split.table[i] = [name |-> "unknown", ORIGIN |-> "", UNIT |-> "", QUANTITY |-> 0]

\* the quantity field of a line: the fourth piece between " | ", "" when missing
C9_Field(line, n) ==
    LET pieces == str_split(strip(line), " | ") IN IF n <= Len(pieces) THEN pieces[n] ELSE ""

\* C9: split_LLM_results returns one record per line for any list of lines
\* (here: none of them "unknown"): the first four fields between " | ",
\* missing ones empty, the quantity the parsed number, or 0.0 when the field
\* is blank, "N/A" or no number; no line makes it fail.
C9_OneRecordPerLine ==
    (split.pc = "returned" /\ \A i \in 1..Len(split.results) :
                                lower(strip(split.results[i])) # "unknown") =>
        /\ split.raised = ""
        /\ Len(split.table) = Len(split.results)
        /\ \A i \in 1..Len(split.results) :
            LET q == C9_Field(split.results[i], 4)
            IN split.table[i] =
                [name |-> C9_Field(split.results[i], 1),
                 ORIGIN |-> C9_Field(split.results[i], 2),
                 UNIT |-> C9_Field(split.results[i], 3),
                 QUANTITY |-> IF ParseFloat(q).ok THEN ParseFloat(q).value ELSE 0]


\* the rows on which the compared tables differ, and the tables' agreement
\* on every name
C6_DifferingRows ==
    {i \in 1..Len(recon.df1.rows) : recon.df1.rows[i] # recon.df2.rows[i]}

C6_OneNumericCell(i) ==
    /\ recon.pc = "returned"
    /\ recon.df1.columns = recon.df2.columns
    /\ C6_DifferingRows = {i}
    /\ recon.df1.rows[i][1] = recon.df2.rows[i][1]
    /\ recon.df1.rows[i][2].kind = "num"
    /\ recon.df2.rows[i][2].kind = "num"

\* C6: when the two tables have the same columns and differ in exactly one
\* numeric cell, compare_results labels the row of that cell "Not Equal" and
\* every other row "Equal" if the cell differs by more than the tolerance
\* 1e-8, and labels every row "Equal" if it differs by at most the tolerance.
C6_ToleranceDecides ==
    \A i \in 1..Len(recon.df1.rows) :
        C6_OneNumericCell(i) =>
            /\ recon.out.raised = ""
            /\ \A k \in 1..Len(recon.df1.rows) :
                recon.out.labels[k] =
                    IF k = i /\ Abs(recon.df1.rows[i][2].num - recon.df2.rows[i][2].num)
                                    > float_tolerance
                    THEN "Not Equal" ELSE "Equal"

\* C7 (as stated): identical tables give "Equal" on every row, no
\* "Not Equal" row, and a reported rate of 100%.
C7_IdenticalRate100 ==
    (recon.pc = "returned" /\ recon.df1 = recon.df2) =>
        /\ recon.out.raised = ""
        /\ \A k \in 1..Len(recon.df1.rows) : recon.out.labels[k] = "Equal"
        /\ recon.out.mapped = 0
        /\ recon.out.rate = "100%"

\* C7 (amended): identical tables, cells missing in both included, give
\* "Equal" on every row and no "Not Equal" row; the rate compare_results
\* reports is the share of rows that are "Not Equal", so it is 0% for
\* identical tables with at least one row.
C7_IdenticalRate0 ==
    (recon.pc = "returned" /\ recon.df1 = recon.df2) =>
        /\ recon.out.raised = ""
        /\ \A k \in 1..Len(recon.df1.rows) : recon.out.labels[k] = "Equal"
        /\ recon.out.mapped = 0
        /\ recon.out.unmapped = Len(recon.df1.rows)
        /\ (recon.df1.rows # <<>> => recon.out.rate = "0%")

\* two identical two-row tables with a quantity missing in both were compared
C7_Witness ==
    /\ recon.pc = "returned"
    /\ recon.df1 = recon.df2
    /\ Len(recon.df1.rows) = 2
    /\ recon.df1.rows[1][2] = Missing
    /\ recon.df1.rows[2][1] = Missing
    /\ recon.out.labels = <<"Equal", "Equal">>
    /\ recon.out.rate = "0%"


\* the rows of the classified sheet that are production entries
C5_Production ==
    {k \in 1..Len(sheet.df) : sheet.df[k].type = "production"}

\* C5: after by-product handling and classification of a sheet, in the rule
\* branch or the LLM branch, every entry's type is production, biosphere or
\* technosphere, and exactly one entry of the sheet has type production.
C5_ExactlyOneProduction ==
    sheet.pc = "classified" =>
        /\ \A k \in 1..Len(sheet.df) :
            sheet.df[k].type \in {"production", "biosphere", "technosphere"}
        /\ Cardinality(C5_Production) = 1


\* C11: applying the eleven converters in another order gives the same
\* outcome as the order of unit_conversion: the same exception, or the same
\* final unit and amount.
C11_OrderIndependent ==
    conv.pc = "compared" =>
        /\ IsRaised(conv.reordered) = IsRaised(conv.chain)
        /\ IsRaised(conv.chain) => conv.reordered.raised = conv.chain.raised
        /\ ~IsRaised(conv.chain) /\ ~IsRaised(conv.reordered) =>
            /\ conv.reordered.unit = conv.chain.unit
            /\ conv.reordered.amount = conv.chain.amount


\* the converters whose name test the name of the converted entry passes
C12_Matching ==
    {k \in 1..Len(Converters) : NameTest(Converters[k], conv.row.name)}

\* C12: an entry in milliliter or liter whose name contains one of ethanol,
\* methanol, argon, nitrogen, toluene, acetone, hexane as a whole word (and
\* matches no other converter) ends, without error, in kilogram with the
\* amount divided by 1e6 (milliliter) or 1e3 (liter) and multiplied by the
\* density of that same substance.
C12_DensityConversion ==
    \A k \in 1..Len(Converters) :
        ( /\ conv.pc \in {"done", "raised"}
          /\ ~isna(conv.row.name)
          /\ conv.row.UNIT \in {"ml", "l"}
          /\ Converters[k].test = "word"
          /\ C12_Matching = {k} )
        => /\ conv.pc = "done"
           /\ conv.row.unit = "kilogram"
           /\ conv.row.amount.ops =
                << IF conv.row.UNIT = "ml" THEN "/ 1e6" ELSE "/ 1e3",
                   "* conversion_" \o (CHOOSE w \in Converters[k].keys : TRUE) >>


\* the classified entry, its name being a recognized CO2 emission, and the
\* compartment keywords
C13_Entry == sheet.df[1]

C13_CO2 ==
    \/ str_contains_nocase(C13_Entry.name, "carbon dioxide, fossil")
    \/ str_contains_nocase(C13_Entry.name, "carbon dioxide, from soil or biomass stock")

C13_Keywords == {"water", "air", "natural", "soil", "inventory", "economic"}

\* C13: in the rule branch a recognized CO2 emission gets the category "air"
\* whatever its origin; any other entry gets its full origin as category when
\* the origin contains a compartment keyword (as a word), and none otherwise.
C13_AirWhateverOrigin ==
    (sheet.pc = "classified" /\ ~sheet.LLM_mapping) =>
        C13_Entry.categories =
            IF C13_CO2 THEN "air"
            ELSE IF \E w \in C13_Keywords : ContainsWord(pystr(C13_Entry.ORIGIN), w)
                 THEN C13_Entry.ORIGIN ELSE NaN


\* C14: the type of every entry is production when its row is flagged as a
\* product row, whether or not a category is set; otherwise biosphere exactly
\* when a category is set; otherwise technosphere.  So a non-product entry
\* has a category if and only if its type is biosphere.
C14_TypePrecedence ==
    sheet.pc = "classified" =>
        sheet.df[1].type =
            IF str_contains_nocase(sheet.df[1].Unnamed_1, "products") THEN "production"
            ELSE IF ~isna(sheet.df[1].categories) THEN "biosphere"
            ELSE "technosphere"

\* C15: the location of an entry is the override of its name when the name is
\* on the override table, whatever the origin; otherwise "RER" for the origins
\* "EU" and "EUR" and for an empty or absent origin, and the origin otherwise.
C15_LocationResolved ==
    sheet.pc = "classified" =>
        sheet.df[1].location =
            CASE sheet.df[1].name = "market group for natural gas, high pressure"
                    -> "Europe without Switzerland"
              [] sheet.df[1].name = "market for wastewater, average"
                    -> "Europe without Switzerland"
              [] sheet.df[1].name = "market for cooling energy" -> "GLO"
              [] sheet.df[1].name = "market for chemical factory, organics" -> "GLO"
              [] OTHER ->
                    IF sheet.df[1].ORIGIN \in {"EU", "EUR", "", NaN} THEN "RER"
                    ELSE sheet.df[1].ORIGIN

\* an entry on the override table with origin "EU" got the override, and that
\* was not the default "RER"
C15_Witness ==
    /\ sheet.pc = "classified"
    /\ sheet.df[1].name = "market for cooling energy"
    /\ sheet.df[1].ORIGIN = "EU"
    /\ sheet.df[1].location = "GLO"


\* the labels of the three groups transform_data_for_LLM made of the sheet
C16_Product == IndexOf(sheet.transform.product_row)

C16_Internal == IndexOf(sheet.transform.internal_activities)

C16_Unclassified == IndexOf(sheet.transform.wo_production)

\* C16: transform_data_for_LLM splits the entries of a sheet into the single
\* product entry, the internal activities and the remaining entries; the
\* three groups are pairwise disjoint and together hold every entry, and one
\* line per remaining entry is sent to the classifier, so none for the
\* product entry.
C16_Partition ==
    sheet.transform.LCI_sheet_modify # <<>> =>
        /\ Cardinality(C16_Product) = 1
        /\ C16_Product \cap C16_Internal = {}
        /\ C16_Product \cap C16_Unclassified = {}
        /\ C16_Internal \cap C16_Unclassified = {}
        /\ C16_Product \cup C16_Internal \cup C16_Unclassified
                = IndexOf(sheet.transform.LCI_sheet_modify)
        /\ Len(sheet.transform.user_inputs) = Len(sheet.transform.wo_production)


\* C17: prompt_LLM issues at most two calls; a second call is made only after
\* the first ended with BadRequestError, and it passes neither temperature
\* nor top_p; every other failure of a call, a failure of the second call
\* included, ends prompt_LLM with that exception and without a parsed result.
C17_AtMostOneRetry ==
    parse.pc # "idle" =>
        /\ Len(parse.calls) <= 2
        /\ Len(parse.calls) = 2 =>
            /\ parse.outcomes[1] = "BadRequestError"
            /\ DOMAIN parse.calls[2] \cap {"temperature", "top_p"} = {}
        /\ \A k \in 1..Len(parse.outcomes) :
            (parse.outcomes[k] # "ok" /\ ~(k = 1 /\ parse.outcomes[1] = "BadRequestError"))
            => parse.pc = "raised" /\ parse.raised = parse.outcomes[k] /\ parse.out = <<>>

\* the first call was rejected as a bad request and the second timed out
C17_Witness ==
    /\ parse.pc = "raised"
    /\ parse.outcomes = <<"BadRequestError", "APITimeoutError">>
    /\ parse.raised = "APITimeoutError"
    /\ parse.user_inputs # <<>>

\* C18: every call prompt_LLM issues, the first and the retry alike, is made
\* with the timeout of 900 seconds.
C18_EveryCallBounded ==
    parse.pc # "idle" =>
        \A k \in 1..Len(parse.calls) :
            "timeout" \in DOMAIN parse.calls[k] /\ parse.calls[k].timeout = 900

\* C19: the rows the claim names for the first k sheets of the list: for the
\* first sheet its whole template block and its entries, for every later
\* sheet its template block without the first 3 rows and its entries
RECURSIVE C19_Rows(_)
C19_Rows(k) ==
    IF k = 0 THEN <<>>
    ELSE LET name == run.sheet_names[k]
             template == run.bw_example_sheets[name].rows
             entries == run.LCI_sheet[name].rows
         IN  C19_Rows(k - 1)
               \o (IF k = 1 THEN template ELSE SubSeq(template, 4, Len(template)))
               \o entries

RECURSIVE C19_Count(_)
C19_Count(k) ==
    IF k = 0 THEN 0
    ELSE C19_Count(k - 1) + Len(run.bw_example_sheets[run.sheet_names[k]].rows)
                          + Len(run.LCI_sheet[run.sheet_names[k]].rows)

\* C19: the table merge_sheets returns holds, in the order of the sheet
\* list, the whole template block and the entries of the first sheet and,
\* for every later sheet, its template block without the first 3 rows and
\* its entries; its row count is the sum of template and entry rows minus 3
\* for each sheet after the first, and the 3 header rows appear once
C19_MergedRows ==
    run.pc = "merged" =>
        LET final == run.final_bw_input_sheet.rows
            k == Len(run.sheet_names)
        IN  /\ final = C19_Rows(k)
            /\ Len(final) = C19_Count(k) - 3 * (k - 1)
            /\ Cardinality({ i \in 1..Len(final) :
                               final[i].part = "template" /\ final[i].row <= 3 }) = 3

\* C19 witness: two different sheets were merged
C19_Witness ==
    /\ run.pc = "merged"
    /\ Len(run.sheet_names) >= 2
    /\ run.sheet_names[1] # run.sheet_names[2]
    /\ Len(run.final_bw_input_sheet.rows) > TemplateRows

\* C20: a sheet of the sheet list that the workbook lacks does not make the
\* run fail: the run never ends in an exception because of it
C20_MissingSheetNotFatal ==
    (\E k \in 1..Len(run.sheet_names) : run.sheet_names[k] \notin DOMAIN run.workbook)
        => run.pc # "raised"

\* C21: compare_results raises to its caller and returns no verdicts whenever
\* the column names of the two tables, trimmed and lower-cased, are not the
\* same names in the same number; when they are, it does not raise the
\* error of mismatched columns
C21_ColumnMismatchRaises ==
    recon.pc = "returned" =>
        LET cols1 == [j \in 1..Len(recon.df1.columns) |-> lower(strip(recon.df1.columns[j]))]
            cols2 == [j \in 1..Len(recon.df2.columns) |-> lower(strip(recon.df2.columns[j]))]
            same == /\ Len(cols1) = Len(cols2)
                    /\ {cols1[j] : j \in 1..Len(cols1)} = {cols2[j] : j \in 1..Len(cols2)}
        IN  /\ ~same => (recon.out.raised # "" /\ recon.out.labels = <<>>)
            /\ same => recon.out.raised # "ValueError"

\* C21 witness: a second table with one column more was refused
C21_Witness ==
    /\ recon.pc = "returned"
    /\ Len(recon.df2.columns) = 3
    /\ Len(recon.df1.rows) > 0
    /\ recon.out.raised = "ValueError"

\* C21 witness of the other direction: names that differ only in case and
\* blanks were compared
C21_SameColumnsCompared ==
    /\ recon.pc = "returned"
    /\ recon.df2.columns = <<" Name", "QUANTITY">>
    /\ Len(recon.out.labels) = 2

\* C22: the rows the claim names for a sheet df: the first PRODUCTS row and
\* every other row as they are, every later PRODUCTS row as an INPUTS row
\* with its quantity multiplied by -1, in the order of df
C22_Expected(df) ==
    [k \in 1..Len(df) |->
        IF df[k].Unnamed_1 = "PRODUCTS" /\ \E j \in 1..(k - 1) : df[j].Unnamed_1 = "PRODUCTS"
          THEN [df[k] EXCEPT !.Unnamed_1 = "INPUTS", !.QUANTITY = Num((-1) * @.num)]
          ELSE df[k]]

\* C22: for a sheet with two or more PRODUCTS rows and no row described
\* "no avoided burden", process_dataframe keeps the first PRODUCTS row, turns
\* every later PRODUCTS row into an INPUTS row with the quantity multiplied
\* by -1, and leaves all other rows and the order of the rows as they are
C22_ByProductsToInputs ==
    [][ ( /\ sheet.pc = "read"
          /\ Cardinality({k \in 1..Len(sheet.df) : sheet.df[k].Unnamed_1 = "PRODUCTS"}) >= 2
          /\ \A k \in 1..Len(sheet.df) : sheet.df[k].DESCRIPTION # "no avoided burden" )
        => ( /\ sheet'.pc = "processed"
             /\ sheet'.df = C22_Expected(sheet.df) ) ]_vars

\* C22 witness: a sheet of three PRODUCTS rows has been handled, the first
\* is still a product and the two later ones are inputs of negative quantity
C22_Witness ==
    /\ sheet.pc = "processed"
    /\ Len(sheet.df) = 3
    /\ sheet.df[1].Unnamed_1 = "PRODUCTS" /\ sheet.df[1].QUANTITY.num > 0
    /\ \A k \in 2..3 : /\ sheet.df[k].Unnamed_1 = "INPUTS"
                       /\ sheet.df[k].QUANTITY.num < 0
                       /\ sheet.df[k].FLOW_NAME \in {"product A", "product B"}

\* C23: the product names of all sheets of the sheet list, as the workbook
\* has them
C23_Registry ==
    UNION { { run.workbook[run.sheet_names[i]][k].FLOW_NAME :
                k \in { j \in 1..Len(run.workbook[run.sheet_names[i]]) :
                          run.workbook[run.sheet_names[i]][j].Unnamed_1 = "PRODUCTS" } } :
            i \in 1..Len(run.sheet_names) }

\* C23: while the sheets are classified the product list holds the product
\* names of all sheets and no step changes it, and the internal activities
\* found for a sheet, the first included, are its rows named like a product
\* of any sheet of the list
C23_RegistryBeforeClassification ==
    [][ run.pc = "mapping" =>
          /\ run'.product_list = run.product_list
          /\ C23_Registry = { run.product_list[k] : k \in 1..Len(run.product_list) }
          /\ \A s \in DOMAIN run'.internal :
                LET found == run'.internal[s]
                    rows == run.LCI_sheet[s].df
                    expected == { k \in 1..Len(rows) : rows[k].FLOW_NAME \in C23_Registry }
                IN  /\ Len(found) = Cardinality(expected)
                    /\ { found[k].index : k \in 1..Len(found) }
                         = { rows[k].index : k \in expected } ]_vars

\* C23 witness: the first of two sheets has been classified and its input
\* that is the product of the second sheet was found to be internal
C23_Witness ==
    /\ run.pc = "mapping" /\ run.k = 2 /\ run.LLM_mapping
    /\ run.sheet_names = <<"A", "B">>
    /\ \E k \in 1..Len(run.internal["A"]) :
          /\ run.internal["A"][k].name = "product B"
          /\ run.internal["A"][k].Unnamed_1 = "INPUTS"

\* C24: an entry that has a unit, and for which no converter matches in
\* both substance keyword and source unit, leaves unit_conversion with that
\* unit and its amount: the default unit "unit" is given only to entries
\* that lack a unit
C24_UnitKept ==
    ( /\ conv.pc = "done"
      /\ ~isna(map_unit(conv.row.UNIT))
      /\ ~\E k \in 1..Len(Converters) : \E b \in 1..Len(Converters[k].branches) :
            /\ NameTest(Converters[k], conv.row.name)
            /\ Converters[k].branches[b].from = map_unit(conv.row.UNIT) )
    => /\ conv.row.unit = map_unit(conv.row.UNIT)
       /\ conv.row.amount.ops = <<>>

\* C25: the unclassified entries whose line came back from prompt_LLM
\* unchanged and whose fields contain no " | "
C25_Unchanged ==
    { i \in 1..Len(sheet.transform.results) :
        /\ sheet.transform.results[i] = sheet.transform.user_inputs[i]
        /\ \A f \in { pystr(sheet.transform.wo_production[i].name),
                      pystr(sheet.transform.wo_production[i].ORIGIN),
                      pystr(sheet.transform.wo_production[i].UNIT) } : Find(f, " | ") = 0 }

\* C25: formatting then structuring is a round trip: such an entry has,
\* in the table of split_LLM_results, exactly the name, origin, unit and
\* quantity it had, so that set_location resolves the same location
C25_RoundTrip ==
    (sheet.pc = "named" /\ sheet.LLM_mapping) =>
        \A i \in C25_Unchanged :
            LET before == sheet.transform.wo_production[i]
                after == sheet.transform.split[i]
            IN  /\ after.name = before.name
                /\ after.ORIGIN = before.ORIGIN
                /\ after.UNIT = before.UNIT
                /\ Num(after.QUANTITY) = before.QUANTITY
                /\ set_location([before EXCEPT !.ORIGIN = after.ORIGIN,
                                               !.name = after.name]).location
                     = set_location(before).location

\* C26: the location and unit of a sheet's template block are those of the
\* sheet's product entry, an entry of type production, in the rule-based and
\* in the LLM branch and wherever the product row stands in the sheet
C26_TemplateFromProduct ==
    sheet.pc = "described" =>
        \E k \in 1..Len(sheet.df) :
            /\ sheet.df[k].type = "production"
            /\ sheet.template.location = sheet.df[k].location
            /\ sheet.template.unit = sheet.df[k].unit

====
